---- MODULE Spec2Model ----
(***************************************************************************)
(* Model of libratbag's hidraw access layer (src/src/libratbag-hidraw.c):  *)
(* the event-listener thread, the soft lock (lock / grab_lock / interrupt  *)
(* pipe) that foreground callers use to steal the read path, the report    *)
(* I/O calls and the start / stop / close lifecycle.                       *)
(*                                                                         *)
(* A step of a thread is one access to shared state (the use_thread flag,  *)
(* a mutex, the pipe, the device descriptor) together with the local code  *)
(* that follows it.  Fields keep the names of struct ratbag_device.hidraw. *)
(* A call that returns leaves the thread at "ret" with its result in rc    *)
(* and buf; the caller then takes the result (Return).                     *)
(***************************************************************************)
EXTENDS Integers, Sequences, FiniteSets, TLC

(* ------------------------------ bounds --------------------------------- *)
NumFg == 2          \* foreground threads
MaxCalls == 3       \* API calls the foreground threads make in total
MaxCtl == 2         \* lifecycle calls (start / stop / close) of the owner
MaxReports == 1     \* input reports the device sends in total
MaxOpens == 2       \* calls of ratbag_open_hidraw the owner makes (OpenSpec)
LoopN == 1          \* iterations of the lock/unlock loop of LoopSpec

(* ------------------------- program constants --------------------------- *)
HID_MAX_BUFFER_SIZE == 4096
HIDRAW_MAX_READ == 4096
EINTR == 4
EIO == 5
EBADF == 9
ENOMEM == 12
EINVAL == 22
ENOTSUP == 95
ETIMEDOUT == 110
\* what a pipe holds by default: 16 pages (pipe(2); not set by this code)
PipeCapacity == 16 * 4096

\* thread identities and pthread mutex states
Listener == 0
Free == -1
Destroyed == -2
\* pipe_fds names no pipe
NoPipe == -1
Fg == 1..NumFg
Threads == {Listener} \cup Fg

\* request kinds and directions, as tags
HID_FEATURE_REPORT == "feature"
HID_OUTPUT_REPORT == "output"
HID_INPUT_REPORT == "input"
HID_REQ_GET_REPORT == "get"
HID_REQ_SET_REPORT == "set"
ReportKinds == {HID_FEATURE_REPORT, HID_OUTPUT_REPORT, HID_INPUT_REPORT}
ReqTypes == {HID_REQ_GET_REPORT, HID_REQ_SET_REPORT, "other"}

\* the data the model draws from
ReportNum == 7
Reports == {<<1>>, <<1, 2>>}
InitBuf == <<5, 6>>
FeatureData == <<7, 9>>
RawLens == {0, 1, 2, 4097}
ReadLens == {0, 1, 2, 4097}

VARIABLES
    use_thread,   \* hidraw.use_thread
    fd,           \* hidraw.fd: 3 once opened, -1 after close
    fd_open,      \* whether the descriptor of the hidraw node (3) is open
    lock,         \* hidraw.lock: Free, Destroyed or the owning thread
    grab_lock,    \* hidraw.grab_lock, likewise
    pipe,         \* bytes waiting in the interrupt pipe (pipe_fds), NoPipe
                  \* while pipe_fds names no pipe
    pc,           \* position of the listener (pc[Listener]) and of each
                  \* foreground thread
    cpc,          \* position of the thread that owns the lifecycle
    op,           \* the API call a foreground thread is in
    rc,           \* the value that call returns
    how,          \* the exit path the call took
    args,         \* arguments of the call in progress: [len, kind, req, prop]
    buf,          \* the caller's buffer of each thread
    devq,         \* input reports waiting on the device descriptor
    raw_event,    \* whether driver->raw_event is registered
    cb_log,       \* reports handed to driver->raw_event, in order
    taken,        \* history of the call in progress: what poll answered,
                  \* the reports read from the device, the bytes read from
                  \* the pipe, the callbacks made: [poll, dev, pipe, cb]
    ncalls, nctl, nreports,   \* calls / reports used up (bounds)
    nopens,       \* calls of ratbag_open_hidraw used up (bound)
    crc,          \* the value the last ratbag_open_hidraw returned
    lacq,         \* history: read-lock acquisitions by the listener since the
                  \* current stealer took grab_lock
    counter, tmp, iter   \* LoopSpec: the shared counter, a thread's copy of
                         \* it, the iterations a thread has started

vars == <<use_thread, fd, fd_open, lock, grab_lock, pipe, pc, cpc, op, rc,
          how, args, buf, devq, raw_event, cb_log, taken, ncalls, nctl,
          nreports, nopens, crc, lacq, counter, tmp, iter>>

hvars == <<use_thread, fd, fd_open, lock, grab_lock, pipe>>
dvars == <<buf, devq, raw_event, cb_log>>
bvars == <<ncalls, nctl, nreports, nopens, crc>>
lvars == <<counter, tmp, iter>>
cvars == <<op, rc, how, args, taken>>

NoArgs == [len |-> 0, kind |-> "none", req |-> "none", prop |-> FALSE]
NoneTaken == [poll |-> "none", dev |-> 0, pipe |-> 0, cb |-> 0]
Min(a, b) == IF a < b THEN a ELSE b

(* ------------------------- pthread mutexes ----------------------------- *)
\* pthread_mutex_lock returns once the mutex is free; on a destroyed mutex
\* the behaviour is undefined: the call returns without owning it (EINVAL)
\* or never returns.
MutexLockable(m) == m = Free \/ m = Destroyed
MutexLocked(m, t) == IF m = Destroyed THEN Destroyed ELSE t
\* pthread_mutex_unlock of a default mutex the caller does not own is
\* undefined: the mutex is released under its owner or is left alone.
MutexUnlocked(m, t) ==
    IF m = t THEN {Free}
    ELSE IF m = Destroyed THEN {Destroyed}
    ELSE {Free, m}

(* ----------------------- calls and their returns ----------------------- *)
\* the call returns v by exit path h
Returns(t, v, h) ==
    /\ pc' = [pc EXCEPT ![t] = "ret"]
    /\ rc' = [rc EXCEPT ![t] = v]
    /\ how' = [how EXCEPT ![t] = h]

\* the caller takes the result: after lock_events and inside its bracket it
\* is in its region, otherwise outside any bracket; the next call gets a
\* fresh buffer
Return(t) ==
    /\ pc[t] = "ret"
    /\ pc' = [pc EXCEPT ![t] =
                 IF op[t] \in {"lock", "read"} THEN "region" ELSE "idle"]
    /\ op' = [op EXCEPT ![t] = "none"]
    /\ rc' = [rc EXCEPT ![t] = 0]
    /\ how' = [how EXCEPT ![t] = "none"]
    /\ args' = [args EXCEPT ![t] = NoArgs]
    /\ taken' = [taken EXCEPT ![t] = NoneTaken]
    /\ buf' = [buf EXCEPT ![t] = InitBuf]
    /\ UNCHANGED <<hvars, devq, raw_event, cb_log, bvars, lvars, cpc, lacq>>

\* one more foreground call out of the MaxCalls
Spend ==
    ncalls < MaxCalls /\ ncalls' = ncalls + 1
    /\ UNCHANGED <<nctl, nreports, nopens, crc>>

(* ------------------- ratbag_hidraw_lock_events ------------------------- *)
\* a variant of LockEventsSkips without the test of the flag
LockEventsNeverSkips == FALSE

\* if (!device->hidraw.use_thread) return 0;
LockEventsSkips == use_thread = 0

\* lock_events returns 0: into raw_request (o = "raw") or to its caller
LockDone(t, o) ==
    IF o = "raw"
    THEN /\ pc' = [pc EXCEPT ![t] = "rr_ioctl"]
         /\ UNCHANGED <<rc, how>>
    ELSE Returns(t, 0, "ok")

LockEntry(t, o) ==
    IF LockEventsSkips
    THEN LockDone(t, o)
    ELSE /\ pc' = [pc EXCEPT ![t] = "le_grab"]
         /\ UNCHANGED <<rc, how>>

\* a foreground thread outside any bracket calls lock_events
LockEvents(t) ==
    /\ pc[t] = "idle"
    /\ op' = [op EXCEPT ![t] = "lock"]
    /\ LockEntry(t, "lock")
    /\ UNCHANGED <<hvars, dvars, cpc, args, taken, lacq>>

\* the call of lock_events inside raw_request
LE_Check(t) ==
    /\ pc[t] = "le_check"
    /\ LockEntry(t, op[t])
    /\ UNCHANGED <<hvars, dvars, bvars, lvars, cpc, op, args, taken, lacq>>

\* pthread_mutex_lock(&device->hidraw.grab_lock);
LE_Grab(t) ==
    /\ pc[t] = "le_grab"
    /\ MutexLockable(grab_lock)
    /\ grab_lock' = MutexLocked(grab_lock, t)
    /\ lacq' = 0
    /\ pc' = [pc EXCEPT ![t] = "le_write"]
    /\ UNCHANGED <<use_thread, fd, fd_open, lock, pipe, dvars, bvars, lvars,
                   cpc, cvars>>

\* write(device->hidraw.pipe_fds[1], &buf, 1);  blocks while the pipe is full
LE_Write(t) ==
    /\ pc[t] = "le_write"
    /\ pipe < PipeCapacity
    /\ pipe' = pipe + 1
    /\ pc' = [pc EXCEPT ![t] = "le_lock"]
    /\ UNCHANGED <<use_thread, fd, fd_open, lock, grab_lock, dvars, bvars,
                   lvars, cpc, cvars, lacq>>

\* a variant of LE_Lock that goes on without taking hidraw.lock
LE_Lock_NoLock(t) ==
    /\ pc[t] = "le_lock"
    /\ lacq' = 0
    /\ pc' = [pc EXCEPT ![t] = "le_ungrab"]
    /\ UNCHANGED <<hvars, dvars, bvars, lvars, cpc, cvars>>

\* pthread_mutex_lock(&device->hidraw.lock);
LE_Lock(t) ==
    /\ pc[t] = "le_lock"
    /\ MutexLockable(lock)
    /\ lock' = MutexLocked(lock, t)
    /\ lacq' = 0
    /\ pc' = [pc EXCEPT ![t] = "le_ungrab"]
    /\ UNCHANGED <<use_thread, fd, fd_open, grab_lock, pipe, dvars, bvars,
                   lvars, cpc, cvars>>

\* pthread_mutex_unlock(&device->hidraw.grab_lock); return 0;
LE_Ungrab(t) ==
    /\ pc[t] = "le_ungrab"
    /\ \E m \in MutexUnlocked(grab_lock, t) : grab_lock' = m
    /\ LockDone(t, op[t])
    /\ UNCHANGED <<use_thread, fd, fd_open, lock, pipe, dvars, bvars, lvars,
                   cpc, op, args, taken, lacq>>

(* ------------------ ratbag_hidraw_unlock_events ------------------------ *)
\* if (!device->hidraw.use_thread) return 0;
UnlockEventsSkips == use_thread = 0

\* a variant of UnlockDone in which the listener loops without the lock /
\* unlock of grab_lock
UnlockDone_NoHandshake(t, o) ==
    IF t = Listener
    THEN /\ pc' = [pc EXCEPT ![t] = "l_while"]
         /\ UNCHANGED <<rc, how>>
    ELSE IF o = "raw"
    THEN /\ pc' = [pc EXCEPT ![t] = "ret"]
         /\ UNCHANGED <<rc, how>>
    ELSE Returns(t, 0, "ok")

\* unlock_events returns: into the listener loop, into raw_request (which
\* returns its own rc) or to its caller
UnlockDone(t, o) ==
    IF t = Listener
    THEN /\ pc' = [pc EXCEPT ![t] = "l_grab"]
         /\ UNCHANGED <<rc, how>>
    ELSE IF o = "raw"
    THEN /\ pc' = [pc EXCEPT ![t] = "ret"]
         /\ UNCHANGED <<rc, how>>
    ELSE Returns(t, 0, "ok")

UnlockEntry(t, o) ==
    IF UnlockEventsSkips
    THEN UnlockDone(t, o)
    ELSE /\ pc' = [pc EXCEPT ![t] = "ue_unlock"]
         /\ UNCHANGED <<rc, how>>

OpOf(t) == IF t \in Fg THEN op[t] ELSE "listener"

\* a foreground thread at position at of its bracket calls unlock_events
UnlockEventsAt(t, at) ==
    /\ pc[t] = at
    /\ op' = [op EXCEPT ![t] = "unlock"]
    /\ UnlockEntry(t, "unlock")
    /\ UNCHANGED <<hvars, dvars, cpc, args, taken, lacq>>

\* the call of unlock_events by the listener and inside raw_request
UE_Check(t) ==
    /\ pc[t] = "ue_check"
    /\ UnlockEntry(t, OpOf(t))
    /\ UNCHANGED <<hvars, dvars, bvars, lvars, cpc, op, args, taken, lacq>>

\* return pthread_mutex_unlock(&device->hidraw.lock);
UE_Unlock(t) ==
    /\ pc[t] = "ue_unlock"
    /\ \E m \in MutexUnlocked(lock, t) : lock' = m
    /\ UnlockDone(t, OpOf(t))
    /\ UNCHANGED <<use_thread, fd, fd_open, grab_lock, pipe, dvars, bvars,
                   lvars, cpc, op, args, taken, lacq>>

(* ----------------- ratbag_hidraw_read_input_report --------------------- *)
\* a variant of RirArgsBad without the test of the descriptor
RirArgsBad_NoFd(len) == len < 1 \/ len > HIDRAW_MAX_READ

\* if (len < 1 || !buf || device->hidraw.fd < 0 || len > HIDRAW_MAX_READ)
RirArgsBad(len) == len < 1 \/ fd < 0 \/ len > HIDRAW_MAX_READ

\* read_input_report returns v by path h: to the listener loop, which goes
\* on to unlock_events, or to the foreground caller
ReadDone(t, v, h) ==
    IF t = Listener
    THEN /\ pc' = [pc EXCEPT ![t] = "ue_check"]
         /\ UNCHANGED <<rc, how>>
    ELSE Returns(t, v, h)

\* a foreground call inside a lock_events / unlock_events bracket, with
\* len drawn from Lens and propagate from Props
ReadCall(t, Lens, Props) ==
    /\ pc[t] = "region"
    /\ op' = [op EXCEPT ![t] = "read"]
    /\ \E len \in Lens, prop \in Props :
          /\ args' = [args EXCEPT ![t] =
                         [NoArgs EXCEPT !.len = len, !.prop = prop]]
          /\ IF RirArgsBad(len)
             THEN Returns(t, -EINVAL, "args")
             ELSE /\ pc' = [pc EXCEPT ![t] = "rir_poll"]
                  /\ UNCHANGED <<rc, how>>
    /\ UNCHANGED <<hvars, dvars, cpc, taken, lacq>>

RirLen(t) == IF t = Listener THEN 1 ELSE args[t].len
RirPropagate(t) == IF t = Listener THEN TRUE ELSE args[t].prop

\* what poll(fds, 2, 1000) can answer in the current state: "fail" (rc == -1),
\* "timeout" (rc == 0: nothing was ready), "pipe" (fds[1].revents == POLLIN,
\* whatever fds[0].revents is) or "dev" (only the device descriptor is
\* ready: a report, or an error condition)
PollOutcomes ==
    {"fail"} \cup (IF pipe > 0 THEN {"pipe"}
                   ELSE IF devq # <<>> THEN {"dev"}
                   ELSE {"timeout", "dev"})
PollErrnos == {EINTR, ENOMEM}

\* the tests of revents after a poll that answered o > 0
Rir_Ready(t, o) ==
    /\ pc' = [pc EXCEPT ![t] = IF o = "pipe" THEN "rir_drain" ELSE "rir_read"]
    /\ UNCHANGED <<rc, how>>

Polled(t, o) == IF t \in Fg THEN [taken EXCEPT ![t].poll = o] ELSE taken

\* a variant of Rir_Poll without "if (rc == -1) return -errno;": a failed
\* poll goes on to the descriptors
Rir_Poll_Unchecked(t) ==
    /\ pc[t] = "rir_poll"
    /\ \E o \in PollOutcomes :
          /\ taken' = Polled(t, o)
          /\ CASE o = "fail" -> Rir_Ready(t, IF pipe > 0 THEN "pipe" ELSE "dev")
               [] o = "timeout" -> ReadDone(t, -ETIMEDOUT, "timeout")
               [] OTHER -> Rir_Ready(t, o)
    /\ UNCHANGED <<hvars, dvars, bvars, lvars, cpc, op, args, lacq>>

\* rc = poll(fds, 2, 1000); and the three tests that follow it
Rir_Poll(t) ==
    /\ pc[t] = "rir_poll"
    /\ \E o \in PollOutcomes :
          /\ taken' = Polled(t, o)
          /\ CASE o = "fail" ->
                    \E e \in PollErrnos : ReadDone(t, -e, "poll_fail")
               [] o = "timeout" -> ReadDone(t, -ETIMEDOUT, "timeout")
               [] OTHER -> Rir_Ready(t, o)
    /\ UNCHANGED <<hvars, dvars, bvars, lvars, cpc, op, args, lacq>>

\* bytes one read(pipe_fds[0], read_buf, HIDRAW_MAX_READ) takes out of a
\* pipe that holds n
Drained(n) == Min(n, HIDRAW_MAX_READ)

\* read(device->hidraw.pipe_fds[0], read_buf, HIDRAW_MAX_READ);
\* return -EINTR;   the pipe is a blocking one: the read waits for a byte
Rir_Drain(t) ==
    /\ pc[t] = "rir_drain"
    /\ pipe > 0
    /\ pipe' = pipe - Drained(pipe)
    /\ taken' = IF t \in Fg
                THEN [taken EXCEPT ![t].pipe = Drained(pipe)] ELSE taken
    /\ ReadDone(t, -EINTR, "intr")
    /\ UNCHANGED <<use_thread, fd, fd_open, lock, grab_lock, dvars, bvars,
                   lvars, cpc, op, args, lacq>>

\* what read(device->hidraw.fd, read_buf, HIDRAW_MAX_READ) can answer: it
\* waits for a report unless the descriptor is in error
ReadOutcomes == {"err"} \cup (IF devq # <<>> THEN {"data"} ELSE {})

\* a variant of Copied that copies all of src, whatever n
Copied_Whole(dst, src, n) ==
    [i \in 1..Len(dst) |-> IF i <= Len(src) THEN src[i] ELSE dst[i]]

\* memcpy(dst, src, n)
Copied(dst, src, n) ==
    [i \in 1..Len(dst) |-> IF i <= n THEN src[i] ELSE dst[i]]

\* a variant of Delivered that makes the callback twice
Delivered_Twice(log, r, cb) ==
    IF cb THEN Append(Append(log, r), r) ELSE log

\* if (propagate && device->driver->raw_event)
\*     device->driver->raw_event(device, read_buf, len_read);
Delivered(log, r, cb) == IF cb THEN Append(log, r) ELSE log

\* rc = read(device->hidraw.fd, ...); if (rc < 0) return -errno;
\* if (propagate && raw_event) raw_event(device, read_buf, len_read);
\* memcpy(buf, read_buf, len_read < len ? len_read : len); return rc;
Rir_Read(t) ==
    /\ pc[t] = "rir_read"
    /\ \E o \in ReadOutcomes :
          IF o = "err"
          THEN /\ ReadDone(t, -EIO, "read_fail")
               /\ UNCHANGED <<buf, devq, cb_log, taken>>
          ELSE LET r == Head(devq)
                   cb == RirPropagate(t) /\ raw_event
               IN /\ devq' = Tail(devq)
                  /\ cb_log' = Delivered(cb_log, r, cb)
                  /\ buf' = [buf EXCEPT ![t] =
                                Copied(buf[t], r, Min(Len(r), RirLen(t)))]
                  /\ taken' = IF t \in Fg
                              THEN [taken EXCEPT ![t].dev = 1,
                                       ![t].cb = IF cb THEN 1 ELSE 0]
                              ELSE taken
                  /\ ReadDone(t, Len(r), "data")
    /\ UNCHANGED <<hvars, raw_event, bvars, lvars, cpc, op, args, lacq>>

(* ------------------------ hidraw_events_thread ------------------------- *)
\* while (device->hidraw.use_thread)
L_While ==
    /\ pc[Listener] = "l_while"
    /\ pc' = [pc EXCEPT ![Listener] =
                 IF use_thread = 0 THEN "exited" ELSE "l_soft"]
    /\ UNCHANGED <<hvars, dvars, bvars, lvars, cpc, cvars, lacq>>

\* ratbag_hidraw_soft_lock_events: if (!device->hidraw.use_thread) return 0;
SoftLockSkips == use_thread = 0

\* ratbag_hidraw_read_input_report(device, &buf, 1, 1): its argument check
\* (hidraw.fd is only written by close, after the join)
L_RirEntry ==
    pc' = [pc EXCEPT ![Listener] =
              IF RirArgsBad(1) THEN "ue_check" ELSE "rir_poll"]

L_Soft ==
    /\ pc[Listener] = "l_soft"
    /\ IF SoftLockSkips
       THEN L_RirEntry
       ELSE pc' = [pc EXCEPT ![Listener] = "l_lock"]
    /\ UNCHANGED <<hvars, dvars, bvars, lvars, cpc, cvars, lacq>>

\* ratbag_hidraw_soft_lock_events: return pthread_mutex_lock(&lock);
L_Lock ==
    /\ pc[Listener] = "l_lock"
    /\ MutexLockable(lock)
    /\ lock' = MutexLocked(lock, Listener)
    /\ lacq' = IF grab_lock \in Fg /\ pc[grab_lock] \in {"le_write", "le_lock"}
               THEN Min(lacq + 1, 2) ELSE 0
    /\ L_RirEntry
    /\ UNCHANGED <<use_thread, fd, fd_open, grab_lock, pipe, dvars, bvars,
                   lvars, cpc, cvars>>

\* pthread_mutex_lock(&device->hidraw.grab_lock);
L_Grab ==
    /\ pc[Listener] = "l_grab"
    /\ MutexLockable(grab_lock)
    /\ grab_lock' = MutexLocked(grab_lock, Listener)
    /\ pc' = [pc EXCEPT ![Listener] = "l_ungrab"]
    /\ UNCHANGED <<use_thread, fd, fd_open, lock, pipe, dvars, bvars, lvars,
                   cpc, cvars, lacq>>

\* pthread_mutex_unlock(&device->hidraw.grab_lock);
L_Ungrab ==
    /\ pc[Listener] = "l_ungrab"
    /\ \E m \in MutexUnlocked(grab_lock, Listener) : grab_lock' = m
    /\ pc' = [pc EXCEPT ![Listener] = "l_while"]
    /\ UNCHANGED <<use_thread, fd, fd_open, lock, pipe, dvars, bvars, lvars,
                   cpc, cvars, lacq>>

(* --------------------- ratbag_hidraw_raw_request ----------------------- *)
\* a variant of RawArgsBad without the upper limit of len
RawArgsBad_NoUpper(len) == len < 1 \/ fd < 0

\* if (len < 1 || len > HID_MAX_BUFFER_SIZE || !buf || device->hidraw.fd < 0)
RawArgsBad(len) == len < 1 \/ len > HID_MAX_BUFFER_SIZE \/ fd < 0

\* a variant of KindUnsupported that lets output reports through
KindUnsupported_InputOnly(rtype) == rtype = HID_INPUT_REPORT

\* if (rtype != HID_FEATURE_REPORT) return -ENOTSUP;
KindUnsupported(rtype) == rtype # HID_FEATURE_REPORT

\* the call, its argument check and the test of the report kind
RawRequestCall(t, Lens, Kinds, Reqs) ==
    /\ pc[t] = "idle"
    /\ op' = [op EXCEPT ![t] = "raw"]
    /\ \E len \in Lens, rtype \in Kinds, req \in Reqs :
          /\ args' = [args EXCEPT ![t] =
                         [len |-> len, prop |-> FALSE,
                          kind |-> IF RawArgsBad(len) THEN "none" ELSE rtype,
                          req |-> IF RawArgsBad(len) \/ KindUnsupported(rtype)
                                  THEN "none" ELSE req]]
          /\ IF RawArgsBad(len)
             THEN Returns(t, -EINVAL, "args")
             ELSE IF KindUnsupported(rtype)
             THEN Returns(t, -ENOTSUP, "kind")
             ELSE /\ pc' = [pc EXCEPT ![t] = "le_check"]
                  /\ UNCHANGED <<rc, how>>
    /\ UNCHANGED <<hvars, dvars, cpc, taken, lacq>>

\* what ioctl(fd, HIDIOCGFEATURE(len) / HIDIOCSFEATURE(len), ...) can answer:
\* a negated errno, or the number of bytes of the report, which hidraw
\* limits to len
IoctlOutcomes(req, len) ==
    IF ~fd_open THEN {-EBADF}
    ELSE {-EIO} \cup (IF req = HID_REQ_GET_REPORT
                      THEN 0..Min(len, Len(FeatureData)) ELSE {len})

\* a variant of GetCount that copies len bytes
GetCount_Len(r, len) == len

\* memcpy(buf, tmp_buf, rc): the number of bytes copied back
GetCount(r, len) == r

\* a variant of SetHeader that leaves the caller's buffer alone
SetHeader_Keep(b) == b

\* buf[0] = reportnum;
SetHeader(b) == [b EXCEPT ![1] = ReportNum]

\* switch (reqtype) { ... } up to the label out
RR_Ioctl(t) ==
    /\ pc[t] = "rr_ioctl"
    /\ CASE args[t].req = HID_REQ_GET_REPORT ->
              \E r \in IoctlOutcomes(args[t].req, args[t].len) :
                 /\ rc' = [rc EXCEPT ![t] = r]
                 /\ how' = [how EXCEPT ![t] =
                               IF r < 0 THEN "get_fail" ELSE "get"]
                 /\ buf' = IF r < 0 THEN buf
                           ELSE [buf EXCEPT ![t] =
                                    Copied(buf[t], FeatureData,
                                           GetCount(r, args[t].len))]
         [] args[t].req = HID_REQ_SET_REPORT ->
              \E r \in IoctlOutcomes(args[t].req, args[t].len) :
                 /\ rc' = [rc EXCEPT ![t] = r]
                 /\ how' = [how EXCEPT ![t] =
                               IF r < 0 THEN "set_fail" ELSE "set"]
                 /\ buf' = [buf EXCEPT ![t] = SetHeader(buf[t])]
         [] OTHER ->
              /\ rc' = [rc EXCEPT ![t] = -EINVAL]
              /\ how' = [how EXCEPT ![t] = "direction"]
              /\ buf' = buf
    /\ taken' = IF args[t].req \in {HID_REQ_GET_REPORT, HID_REQ_SET_REPORT}
                THEN [taken EXCEPT ![t].dev = 1] ELSE taken
    /\ pc' = [pc EXCEPT ![t] = "ue_check"]
    /\ UNCHANGED <<hvars, devq, raw_event, cb_log, bvars, lvars, cpc, op,
                   args, lacq>>

(* -------------------- ratbag_hidraw_output_report ---------------------- *)
\* if (len < 1 || len > HID_MAX_BUFFER_SIZE || !buf || device->hidraw.fd < 0)
OutputArgsBad(len) == len < 1 \/ len > HID_MAX_BUFFER_SIZE \/ fd < 0

\* the call and its argument check; output_report takes no lock
OutputReportCall(t, Lens) ==
    /\ pc[t] = "idle"
    /\ op' = [op EXCEPT ![t] = "output"]
    /\ \E len \in Lens :
          /\ args' = [args EXCEPT ![t] =
                         [NoArgs EXCEPT !.len = len]]
          /\ IF OutputArgsBad(len)
             THEN Returns(t, -EINVAL, "args")
             ELSE /\ pc' = [pc EXCEPT ![t] = "or_write"]
                  /\ UNCHANGED <<rc, how>>
    /\ UNCHANGED <<hvars, dvars, cpc, taken, lacq>>

\* what write(device->hidraw.fd, buf, len) can answer: a negated errno, a
\* short count or len
WriteOutcomes(len) ==
    IF ~fd_open THEN {-EBADF} ELSE {-EIO, len - 1, len}

\* rc = write(device->hidraw.fd, buf, len); if (rc < 0) return -errno;
\* if (rc != (int)len) return -EIO; return 0;
OR_Write(t) ==
    /\ pc[t] = "or_write"
    /\ \E r \in WriteOutcomes(args[t].len) :
          IF r < 0 THEN Returns(t, r, "write_fail")
          ELSE IF r # args[t].len THEN Returns(t, -EIO, "short")
          ELSE Returns(t, 0, "written")
    /\ taken' = [taken EXCEPT ![t].dev = 1]
    /\ UNCHANGED <<hvars, dvars, bvars, lvars, cpc, op, args, lacq>>

(* ------------- start_events / stop_events / close_hidraw --------------- *)
\* one more lifecycle call out of the MaxCtl
SpendCtl ==
    nctl < MaxCtl /\ nctl' = nctl + 1
    /\ UNCHANGED <<ncalls, nreports, nopens, crc>>

\* assert(device->hidraw.use_thread == 0); device->hidraw.use_thread = 1;
\* a failed assertion ends the process and every thread of it
C_Start ==
    /\ cpc = "idle"
    /\ SpendCtl
    /\ IF use_thread # 0
       THEN /\ cpc' = "aborted"
            /\ pc' = [t \in Threads |-> "dead"]
            /\ UNCHANGED use_thread
       ELSE /\ use_thread' = 1
            /\ cpc' = "se_create"
            /\ pc' = pc
    /\ UNCHANGED <<fd, fd_open, lock, grab_lock, pipe, dvars, lvars, cvars,
                   lacq>>

\* ret = pthread_create(&events_thread, NULL, hidraw_events_thread, device);
C_Create ==
    /\ cpc = "se_create"
    /\ \E created \in BOOLEAN :
          pc' = IF created THEN [pc EXCEPT ![Listener] = "l_while"] ELSE pc
    /\ cpc' = "idle"
    /\ UNCHANGED <<hvars, dvars, bvars, lvars, cvars, lacq>>

\* if (device->hidraw.use_thread) { device->hidraw.use_thread = 0; ...
StopFlag(joining, done) ==
    IF use_thread # 0
    THEN /\ use_thread' = 0
         /\ cpc' = joining
    ELSE /\ cpc' = done
         /\ UNCHANGED use_thread

\* a variant of StopJoin that does not wait for the listener
StopJoin_NoWait(done) ==
    /\ cpc' = done
    /\ pc' = pc

\* pthread_join(device->hidraw.events_thread, NULL);  with no thread behind
\* events_thread (pthread_create failed) the join is undefined: it returns
\* an error at once
StopJoin(done) ==
    IF pc[Listener] = "none"
    THEN /\ cpc' = done
         /\ pc' = pc
    ELSE /\ pc[Listener] = "exited"
         /\ pc' = [pc EXCEPT ![Listener] = "none"]
         /\ cpc' = done

C_Stop ==
    /\ cpc = "idle"
    /\ SpendCtl
    /\ StopFlag("st_join", "idle")
    /\ UNCHANGED <<fd, fd_open, lock, grab_lock, pipe, dvars, lvars, pc,
                   cvars, lacq>>

C_Join ==
    /\ cpc = "st_join"
    /\ StopJoin("idle")
    /\ UNCHANGED <<hvars, dvars, bvars, lvars, cvars, lacq>>

\* ratbag_close_hidraw: ratbag_hidraw_stop_events(device);
C_Close ==
    /\ cpc = "idle"
    /\ SpendCtl
    /\ StopFlag("cl_join", "cl_destroy")
    /\ UNCHANGED <<fd, fd_open, lock, grab_lock, pipe, dvars, lvars, pc,
                   cvars, lacq>>

C_CloseJoin ==
    /\ cpc = "cl_join"
    /\ StopJoin("cl_destroy")
    /\ UNCHANGED <<hvars, dvars, bvars, lvars, cvars, lacq>>

\* pthread_mutex_destroy(&device->hidraw.lock);
C_DestroyLock ==
    /\ cpc = "cl_destroy"
    /\ lock' = Destroyed
    /\ cpc' = "cl_destroy_grab"
    /\ UNCHANGED <<use_thread, fd, fd_open, grab_lock, pipe, dvars, bvars,
                   lvars, pc, cvars, lacq>>

\* pthread_mutex_destroy(&device->hidraw.grab_lock);
C_DestroyGrab ==
    /\ cpc = "cl_destroy_grab"
    /\ grab_lock' = Destroyed
    /\ cpc' = "cl_close_fd"
    /\ UNCHANGED <<use_thread, fd, fd_open, lock, pipe, dvars, bvars, lvars,
                   pc, cvars, lacq>>

\* ratbag_close_fd(device, device->hidraw.fd);
C_CloseFd ==
    /\ cpc = "cl_close_fd"
    /\ fd_open' = FALSE
    /\ cpc' = "cl_set_fd"
    /\ UNCHANGED <<use_thread, fd, lock, grab_lock, pipe, dvars, bvars, lvars,
                   pc, cvars, lacq>>

\* device->hidraw.fd = -1;
C_SetFd ==
    /\ cpc = "cl_set_fd"
    /\ fd' = -1
    /\ cpc' = "closed"
    /\ UNCHANGED <<use_thread, fd_open, lock, grab_lock, pipe, dvars, bvars,
                   lvars, pc, cvars, lacq>>

(* --------------------------- ratbag_open_hidraw ------------------------- *)
\* the errno values the failing calls of ratbag_open_hidraw leave behind
OpenErrnos == {EIO, ENOMEM}

\* if (!device->udev_hidraw) return -EINVAL;  on a handle that is not open
O_Open ==
    /\ cpc \in {"unopened", "closed"}
    /\ nopens < MaxOpens
    /\ nopens' = nopens + 1
    /\ \E node \in BOOLEAN :
          IF node
          THEN /\ cpc' = "op_path"
               /\ crc' = crc
          ELSE /\ cpc' = "unopened"
               /\ crc' = -EINVAL
    /\ UNCHANGED <<hvars, dvars, lvars, pc, cvars, ncalls, nctl, nreports,
                   lacq>>

\* fd = ratbag_open_path(device, devnode, O_RDWR); if (fd < 0) goto err;
\* at err nothing is closed when fd < 0
O_Path ==
    /\ cpc = "op_path"
    /\ \E opened \in BOOLEAN :
          IF opened
          THEN /\ fd_open' = TRUE
               /\ cpc' = "op_info"
               /\ crc' = crc
          ELSE /\ fd_open' = fd_open
               /\ cpc' = "unopened"
               /\ \E e \in OpenErrnos : crc' = -e
    /\ UNCHANGED <<use_thread, fd, lock, grab_lock, pipe, dvars, lvars, pc,
                   cvars, ncalls, nctl, nreports, nopens, lacq>>

\* res = ioctl(fd, HIDIOCGRAWINFO, &info); if (res < 0) goto err;
O_Info ==
    /\ cpc = "op_info"
    /\ \E ok \in BOOLEAN : cpc' = IF ok THEN "op_set_fd" ELSE "op_err"
    /\ UNCHANGED <<hvars, dvars, bvars, lvars, pc, cvars, lacq>>

\* device->hidraw.fd = fd;
O_SetFd ==
    /\ cpc = "op_set_fd"
    /\ fd' = 3
    /\ cpc' = "op_init"
    /\ UNCHANGED <<use_thread, fd_open, lock, grab_lock, pipe, dvars, bvars,
                   lvars, pc, cvars, lacq>>

\* pthread_mutex_init of hidraw.lock and of hidraw.grab_lock
O_InitLocks ==
    /\ cpc = "op_init"
    /\ lock' = Free
    /\ grab_lock' = Free
    /\ cpc' = "op_pipe"
    /\ UNCHANGED <<use_thread, fd, fd_open, pipe, dvars, bvars, lvars, pc,
                   cvars, lacq>>

\* res = pipe(device->hidraw.pipe_fds); if (res < 0) goto err_threads;
\* return 0;  a failing pipe() leaves pipe_fds as it was
O_Pipe ==
    /\ cpc = "op_pipe"
    /\ \E ok \in BOOLEAN :
          IF ok
          THEN /\ pipe' = 0
               /\ crc' = 0
               /\ cpc' = "idle"
          ELSE /\ cpc' = "op_err_threads"
               /\ UNCHANGED <<pipe, crc>>
    /\ UNCHANGED <<use_thread, fd, fd_open, lock, grab_lock, dvars, lvars,
                   pc, cvars, ncalls, nctl, nreports, nopens, lacq>>

\* err_threads: pthread_mutex_destroy of both mutexes
O_ErrThreads ==
    /\ cpc = "op_err_threads"
    /\ lock' = Destroyed
    /\ grab_lock' = Destroyed
    /\ cpc' = "op_err"
    /\ UNCHANGED <<use_thread, fd, fd_open, pipe, dvars, bvars, lvars, pc,
                   cvars, lacq>>

\* a variant of ErrClosed that leaves the descriptor open
ErrClosed_Leak(open) == open

\* err: if (fd >= 0) ratbag_close_fd(device, fd);  whether the descriptor
\* is open afterwards
ErrClosed(open) == FALSE

\* err: ... return -errno;
O_Err ==
    /\ cpc = "op_err"
    /\ fd_open' = ErrClosed(fd_open)
    /\ \E e \in OpenErrnos : crc' = -e
    /\ cpc' = "unopened"
    /\ UNCHANGED <<use_thread, fd, lock, grab_lock, pipe, dvars, lvars, pc,
                   cvars, ncalls, nctl, nreports, nopens, lacq>>

(* ------------------------------ the device ----------------------------- *)
\* the device sends an input report
DeviceInput ==
    /\ nreports < MaxReports
    /\ fd_open
    /\ nreports' = nreports + 1
    /\ \E r \in Reports : devq' = Append(devq, r)
    /\ UNCHANGED <<hvars, buf, raw_event, cb_log, lvars, pc, cpc, cvars,
                   ncalls, nctl, nopens, crc, lacq>>

(* --------------------------- specifications ---------------------------- *)
\* the handle after ratbag_open_hidraw succeeded: no listener yet
Init ==
    /\ use_thread = 0
    /\ fd = 3
    /\ fd_open = TRUE
    /\ lock = Free
    /\ grab_lock = Free
    /\ pipe = 0
    /\ pc = [t \in Threads |-> IF t = Listener THEN "none" ELSE "idle"]
    /\ cpc = "idle"
    /\ op = [t \in Fg |-> "none"]
    /\ rc = [t \in Fg |-> 0]
    /\ how = [t \in Fg |-> "none"]
    /\ args = [t \in Fg |-> NoArgs]
    /\ taken = [t \in Fg |-> NoneTaken]
    /\ buf = [t \in Threads |-> InitBuf]
    /\ devq = <<>>
    /\ raw_event = TRUE
    /\ cb_log = <<>>
    /\ ncalls = 0
    /\ nctl = 0
    /\ nreports = 0
    /\ nopens = 0
    /\ crc = 0
    /\ lacq = 0
    /\ counter = 0
    /\ tmp = [t \in Fg |-> 0]
    /\ iter = [t \in Fg |-> 0]

\* the steps inside read_input_report and unlock_events, of any thread
StepNext(t) ==
    \/ UE_Check(t) \/ UE_Unlock(t)
    \/ Rir_Poll(t) \/ Rir_Drain(t) \/ Rir_Read(t)

\* the steps inside lock_events, and the caller taking a result
FgStepNext(t) ==
    \/ LE_Grab(t) \/ LE_Write(t) \/ LE_Lock(t) \/ LE_Ungrab(t)
    \/ Return(t)

ListenerNext ==
    \/ L_While \/ L_Soft \/ L_Lock \/ L_Grab \/ L_Ungrab

CtlNext ==
    \/ C_Start \/ C_Create \/ C_Stop \/ C_Join \/ C_Close \/ C_CloseJoin
    \/ C_DestroyLock \/ C_DestroyGrab \/ C_CloseFd \/ C_SetFd

\* the calls foreground threads make under Spec: brackets of lock_events and
\* unlock_events with reads (of one byte, propagated) inside
FgCallNext(t) ==
    \/ LockEvents(t) /\ Spend /\ UNCHANGED lvars
    \/ UnlockEventsAt(t, "region") /\ UNCHANGED <<bvars, lvars>>
    \/ ReadCall(t, {1}, {TRUE}) /\ Spend /\ UNCHANGED lvars

\* Spec: the listener, NumFg foreground threads that bracket their reads and
\* the owner of the lifecycle, on a device that sends nothing
Next ==
    \/ ListenerNext
    \/ \E t \in Threads : StepNext(t)
    \/ \E t \in Fg : FgStepNext(t) \/ FgCallNext(t)
    \/ CtlNext

Spec == Init /\ [][Next]_vars

\* RawSpec: the listener, one foreground thread that calls raw_request
\* (every exit path) and output_report, and the owner of the lifecycle
RawCaller == 1
RawCallNext(t) ==
    \/ RawRequestCall(t, RawLens, ReportKinds, ReqTypes)
          /\ Spend /\ UNCHANGED lvars
    \/ OutputReportCall(t, RawLens) /\ Spend /\ UNCHANGED lvars

RawNext ==
    \/ ListenerNext
    \/ \E t \in {Listener, RawCaller} : StepNext(t)
    \/ FgStepNext(RawCaller) \/ LE_Check(RawCaller) \/ RR_Ioctl(RawCaller)
    \/ OR_Write(RawCaller)
    \/ RawCallNext(RawCaller)
    \/ CtlNext

RawSpec == Init /\ [][RawNext]_vars

(* ------------- OpenSpec: the whole life of a handle --------------------- *)
\* a handle that was never opened: no descriptor, no mutexes, no pipe
OpenInit ==
    /\ use_thread = 0
    /\ fd = -1
    /\ fd_open = FALSE
    /\ lock = Destroyed
    /\ grab_lock = Destroyed
    /\ pipe = NoPipe
    /\ pc = [t \in Threads |-> IF t = Listener THEN "none" ELSE "idle"]
    /\ cpc = "unopened"
    /\ op = [t \in Fg |-> "none"]
    /\ rc = [t \in Fg |-> 0]
    /\ how = [t \in Fg |-> "none"]
    /\ args = [t \in Fg |-> NoArgs]
    /\ taken = [t \in Fg |-> NoneTaken]
    /\ buf = [t \in Threads |-> InitBuf]
    /\ devq = <<>>
    /\ raw_event = TRUE
    /\ cb_log = <<>>
    /\ ncalls = 0
    /\ nctl = 0
    /\ nreports = 0
    /\ nopens = 0
    /\ crc = 0
    /\ lacq = 0
    /\ counter = 0
    /\ tmp = [t \in Fg |-> 0]
    /\ iter = [t \in Fg |-> 0]

OpenStepNext ==
    \/ O_Open \/ O_Path \/ O_Info \/ O_SetFd \/ O_InitLocks \/ O_Pipe
    \/ O_ErrThreads \/ O_Err

\* the owner opens (every failure included), starts, stops, closes and
\* opens again; one foreground thread makes every call of the API
OpenNext ==
    \/ OpenStepNext
    \/ CtlNext
    \/ ListenerNext
    \/ \E t \in {Listener, RawCaller} : StepNext(t)
    \/ FgStepNext(RawCaller) \/ LE_Check(RawCaller) \/ RR_Ioctl(RawCaller)
    \/ OR_Write(RawCaller)
    \/ RawCallNext(RawCaller)
    \/ FgCallNext(RawCaller)

OpenSpec == OpenInit /\ [][OpenNext]_vars

(* ------------- LoopSpec: the lock / unlock loop of spec section 8 ------ *)
\* each of the NumFg threads runs LoopN times
\*     lock_events; counter = counter + 1; unlock_events
\* against a running listener; the increment is a read and a write
Loop_Lock(t) ==
    /\ iter[t] < LoopN
    /\ iter' = [iter EXCEPT ![t] = iter[t] + 1]
    /\ LockEvents(t)
    /\ UNCHANGED <<bvars, counter, tmp>>

CntRead(t) ==
    /\ pc[t] = "region"
    /\ tmp' = [tmp EXCEPT ![t] = counter]
    /\ pc' = [pc EXCEPT ![t] = "cnt_w"]
    /\ UNCHANGED <<hvars, dvars, bvars, cpc, cvars, lacq, counter, iter>>

CntWrite(t) ==
    /\ pc[t] = "cnt_w"
    /\ counter' = tmp[t] + 1
    /\ tmp' = [tmp EXCEPT ![t] = 0]
    /\ pc' = [pc EXCEPT ![t] = "cnt_done"]
    /\ UNCHANGED <<hvars, dvars, bvars, cpc, cvars, lacq, iter>>

Loop_Unlock(t) == UnlockEventsAt(t, "cnt_done") /\ UNCHANGED <<bvars, lvars>>

\* the handle after start_events returned with the listener spawned
LoopInit ==
    /\ use_thread = 1
    /\ fd = 3
    /\ fd_open = TRUE
    /\ lock = Free
    /\ grab_lock = Free
    /\ pipe = 0
    /\ pc = [t \in Threads |-> IF t = Listener THEN "l_while" ELSE "idle"]
    /\ cpc = "idle"
    /\ op = [t \in Fg |-> "none"]
    /\ rc = [t \in Fg |-> 0]
    /\ how = [t \in Fg |-> "none"]
    /\ args = [t \in Fg |-> NoArgs]
    /\ taken = [t \in Fg |-> NoneTaken]
    /\ buf = [t \in Threads |-> InitBuf]
    /\ devq = <<>>
    /\ raw_event = TRUE
    /\ cb_log = <<>>
    /\ ncalls = 0
    /\ nctl = 0
    /\ nreports = 0
    /\ nopens = 0
    /\ crc = 0
    /\ lacq = 0
    /\ counter = 0
    /\ tmp = [t \in Fg |-> 0]
    /\ iter = [t \in Fg |-> 0]

LoopFgNext(t) ==
    \/ Loop_Lock(t) \/ CntRead(t) \/ CntWrite(t) \/ Loop_Unlock(t)
    \/ FgStepNext(t)
    \/ StepNext(t)

LoopListenerNext == ListenerNext \/ StepNext(Listener)

LoopNext == LoopListenerNext \/ \E t \in Fg : LoopFgNext(t)

\* every thread keeps running, and a thread waiting for a mutex that is free
\* again and again gets it eventually: strong fairness of each thread's step
\* (a thread has one step to take, and only a blocked one is disabled)
LoopFair ==
    /\ SF_vars(LoopListenerNext)
    /\ \A t \in Fg : SF_vars(LoopFgNext(t))

LoopSpec == LoopInit /\ [][LoopNext]_vars /\ LoopFair

LoopDone == \A t \in Fg : pc[t] = "idle" /\ iter[t] = LoopN

(* ----- ReadSpec: read_input_report against the listener and the device - *)
\* bytes already in the interrupt pipe when ReadSpec starts: every
\* lock_events that finds the listener outside its poll leaves its byte
\* behind (the listener waiting for grab_lock or for lock while foreground
\* threads pass the lock on), so any number of stale bytes can be waiting
StaleBytes == {0, HIDRAW_MAX_READ}

\* the handle after start_events returned with the listener spawned, a
\* callback registered or not
ReadInit ==
    /\ use_thread = 1
    /\ fd = 3
    /\ fd_open = TRUE
    /\ lock = Free
    /\ grab_lock = Free
    /\ pipe \in StaleBytes
    /\ pc = [t \in Threads |-> IF t = Listener THEN "l_while" ELSE "idle"]
    /\ cpc = "idle"
    /\ op = [t \in Fg |-> "none"]
    /\ rc = [t \in Fg |-> 0]
    /\ how = [t \in Fg |-> "none"]
    /\ args = [t \in Fg |-> NoArgs]
    /\ taken = [t \in Fg |-> NoneTaken]
    /\ buf = [t \in Threads |-> InitBuf]
    /\ devq = <<>>
    /\ raw_event \in BOOLEAN
    /\ cb_log = <<>>
    /\ ncalls = 0
    /\ nctl = 0
    /\ nreports = 0
    /\ nopens = 0
    /\ crc = 0
    /\ lacq = 0
    /\ counter = 0
    /\ tmp = [t \in Fg |-> 0]
    /\ iter = [t \in Fg |-> 0]

\* brackets with reads of every len and propagate inside
ReadFgNext(t) ==
    \/ LockEvents(t) /\ Spend /\ UNCHANGED lvars
    \/ UnlockEventsAt(t, "region") /\ UNCHANGED <<bvars, lvars>>
    \/ ReadCall(t, ReadLens, BOOLEAN) /\ Spend /\ UNCHANGED lvars
    \/ FgStepNext(t)
    \/ StepNext(t)

ReadNext ==
    \/ LoopListenerNext
    \/ \E t \in Fg : ReadFgNext(t)
    \/ DeviceInput

ReadSpec == ReadInit /\ [][ReadNext]_vars

(* ------------------------------ properties ----------------------------- *)
\* positions at which a thread is inside read_input_report, at the device
DevicePcs == {"rir_poll", "rir_drain", "rir_read"}

\* t is inside a device-access window: the listener inside its
\* read_input_report; a foreground thread from the return of its lock_events
\* (or of the one inside raw_request) to its call of unlock_events
InWindow(t) ==
    IF t = Listener
    THEN pc[t] \in DevicePcs
    ELSE \/ pc[t] \in DevicePcs \cup {"region", "rr_ioctl"}
         \/ pc[t] = "ret" /\ op[t] \in {"lock", "read"}

\* start_events has been called and stop_events has not returned since
SessionActive ==
    \/ cpc \in {"se_create", "st_join", "cl_join"}
    \/ cpc = "idle" /\ use_thread # 0

\* C1: between the call of start_events and the return of stop_events at
\* most one thread is inside a device-access window; stated for the step
\* that takes a foreground thread into its window while stop_events has
\* not returned: the listener is then outside its read_input_report.
C1_MutualExclusion ==
    [][\A t \in Fg :
          (SessionActive /\ cpc # "idle" /\ ~InWindow(t) /\ InWindow(t)')
             => ~InWindow(Listener)']_vars

ListenerCanRun ==
    /\ pc[Listener] = "l_lock" => MutexLockable(lock)
    /\ pc[Listener] = "l_grab" => MutexLockable(grab_lock)

\* C3: stop_events returns: while it waits in the join and every foreground
\* thread that called lock_events has called unlock_events and returned,
\* the listener is not blocked, so it reaches the test of the flag and exits.
C3_JoinCompletes ==
    (cpc = "st_join" /\ \A t \in Fg : pc[t] = "idle") => ListenerCanRun

\* C4: when raw_request returns, on any exit path, the caller holds neither
\* read_mutex nor grab_mutex.
C4_NoLeak ==
    \A t \in Fg :
       (pc[t] = "ret" /\ op[t] = "raw") => (lock # t /\ grab_lock # t)

\* C5: whenever the listener polls while a stealer that has written its
\* byte waits for read_mutex, the byte is still in the pipe.
C5_ByteInPipe ==
    \A s \in Fg :
       (pc[s] = "le_lock" /\ pc[Listener] = "rir_poll") => pipe > 0

\* C6: while a stealer holds grab_mutex inside lock_events and has not yet
\* taken read_mutex, the listener takes read_mutex at most once.
C6_BoundedOvertaking == lacq <= 1

\* the listener has overtaken the waiting stealer once, has released
\* read_mutex and now waits for grab_mutex
C6_Witness ==
    /\ lacq = 1
    /\ pc[Listener] = "l_grab"
    /\ \E s \in Fg : grab_lock = s /\ pc[s] = "le_lock"

\* C7: once close has destroyed a mutex or closed the descriptor, there is
\* no listener thread left: it has been joined.
C7_TeardownOrder ==
    (lock = Destroyed \/ grab_lock = Destroyed \/ ~fd_open)
       => pc[Listener] \in {"none", "dead"}

\* close has run to its end after a session in which a stealer wrote to
\* the pipe
C7_Witness ==
    /\ cpc = "closed"
    /\ lock = Destroyed /\ grab_lock = Destroyed /\ ~fd_open
    /\ pipe > 0

\* C8: a call of lock_events or unlock_events that finds the running flag
\* clear returns 0 in the same step and leaves read_mutex, grab_mutex and
\* the pipe as they were.
C8_NoOpWithoutListener ==
    [][\A t \in Fg :
          (use_thread = 0 /\ op[t] = "none" /\ op'[t] \in {"lock", "unlock"})
             => /\ pc'[t] = "ret"
                /\ rc'[t] = 0
                /\ lock' = lock /\ grab_lock' = grab_lock /\ pipe' = pipe]_vars

\* a bracket of lock_events and unlock_events has returned on a handle
\* that was never started
C8_Witness ==
    /\ nctl = 0
    /\ use_thread = 0
    /\ \E t \in Fg : pc[t] = "ret" /\ op[t] = "unlock" /\ rc[t] = 0
    /\ lock = Free /\ grab_lock = Free /\ pipe = 0

\* C9: the step of read_input_report that follows a poll with the pipe
\* readable empties the pipe, whatever it held, returns -EINTR, and leaves
\* the device queue, the callbacks and the caller's buffer as they were.
C9_DrainEmptiesPipe ==
    [][\A t \in Threads :
          (pc[t] = "rir_drain" /\ pc'[t] # "rir_drain")
             => /\ pipe' = 0
                /\ devq' = devq /\ cb_log' = cb_log /\ buf'[t] = buf[t]
                /\ t \in Fg => rc'[t] = -EINTR]_vars

\* C10: a read_input_report with valid arguments returns by what poll and
\* the read answered: poll failed -> -errno, nothing ready -> -ETIMEDOUT,
\* pipe ready -> -EINTR, device ready -> -errno of the read or the length of
\* the one report read; after a failed poll or a timeout nothing has been
\* read from the device or the pipe and no callback has been made.
C10_Outcomes ==
    \A t \in Fg :
       (pc[t] = "ret" /\ op[t] = "read" /\ ~RirArgsBad(args[t].len)) =>
          LET k == taken[t]
          IN CASE k.poll = "fail" ->
                    /\ -rc[t] \in PollErrnos
                    /\ k.dev = 0 /\ k.pipe = 0 /\ k.cb = 0
               [] k.poll = "timeout" ->
                    /\ rc[t] = -ETIMEDOUT
                    /\ k.dev = 0 /\ k.pipe = 0 /\ k.cb = 0
               [] k.poll = "pipe" ->
                    /\ rc[t] = -EINTR
                    /\ k.dev = 0 /\ k.cb = 0
               [] k.poll = "dev" ->
                    \/ rc[t] = -EIO /\ k.dev = 0 /\ k.pipe = 0 /\ k.cb = 0
                    \/ rc[t] >= 0 /\ k.dev = 1 /\ k.pipe = 0
               [] OTHER -> FALSE

\* a read found neither descriptor ready and returned -ETIMEDOUT
C10_Witness ==
    \E t \in Fg :
       /\ pc[t] = "ret" /\ op[t] = "read"
       /\ taken[t].poll = "timeout" /\ rc[t] = -ETIMEDOUT

\* C11: the step of read_input_report that reads a report r of n bytes from
\* the device copies the first min(n, len) bytes of r into the caller's
\* buffer and leaves the bytes past them, returns n, and hands all of r to
\* the callback when propagate is set and a callback is registered (the
\* listener reads with len 1 and propagate set).
C11_TruncateCopy ==
    [][\A t \in Threads :
          (pc[t] = "rir_read" /\ pc'[t] # "rir_read" /\ devq' # devq) =>
             LET r == Head(devq)
                 k == Min(Len(r), RirLen(t))
             IN /\ \A i \in 1..Len(buf[t]) :
                      buf'[t][i] = IF i <= k THEN r[i] ELSE buf[t][i]
                /\ Len(buf'[t]) = Len(buf[t])
                /\ t \in Fg => rc'[t] = Len(r)
                /\ (RirPropagate(t) /\ raw_event) => cb_log' = Append(cb_log, r)
                /\ ~(RirPropagate(t) /\ raw_event) => cb_log' = cb_log]_vars

\* a foreground read with len 1 has read a report of two bytes: it returns
\* 2, one byte is copied and the callback has the whole report
C11_Witness ==
    \E t \in Fg :
       /\ pc[t] = "ret" /\ op[t] = "read" /\ how[t] = "data"
       /\ args[t].len = 1 /\ args[t].prop /\ raw_event
       /\ rc[t] = 2
       /\ buf[t] = <<1, 6>>
       /\ cb_log = << <<1, 2>> >>

\* C12: a report taken from the device by the listener, or by a foreground
\* read with propagate set, goes to the registered callback in that same
\* step, once and with its bytes; the callback is made in no other step, so
\* no report is delivered twice and a read that ends in a timeout, an
\* interrupt or an error delivers nothing.
C12_ExactlyOnce ==
    [][/\ cb_log' # cb_log =>
             /\ devq # <<>>
             /\ devq' = Tail(devq)
             /\ cb_log' = Append(cb_log, Head(devq))
       /\ \A t \in Threads :
             (/\ pc[t] = "rir_read" /\ pc'[t] # "rir_read" /\ devq' # devq
              /\ RirPropagate(t) /\ raw_event)
                => cb_log' = Append(cb_log, Head(devq))]_vars

\* the listener has taken the one report the device sent and the callback
\* has it, while no foreground thread made a call
C12_Witness ==
    /\ ncalls = 0
    /\ nreports = 1
    /\ devq = <<>>
    /\ cb_log = << <<1, 2>> >>

\* C13: a call of raw_request or of output_report with len 0 or len above
\* 4096 returns -EINVAL in the step of the call, whatever the kind and the
\* direction: no mutex changes, nothing is written to the pipe, the device
\* is not accessed and the caller's buffer is as it was.
C13_LengthValidation ==
    [][\A t \in Fg :
          (/\ op[t] = "none" /\ op'[t] \in {"raw", "output"}
           /\ (args'[t].len < 1 \/ args'[t].len > 4096))
             => /\ pc'[t] = "ret"
                /\ rc'[t] = -EINVAL
                /\ lock' = lock /\ grab_lock' = grab_lock /\ pipe' = pipe
                /\ taken'[t].dev = 0
                /\ buf' = buf]_vars

\* raw_request with len 4097 has returned -EINVAL while the listener runs
C13_Witness ==
    /\ use_thread = 1
    /\ pc[Listener] \in DevicePcs
    /\ \E t \in Fg :
          /\ pc[t] = "ret" /\ op[t] = "raw"
          /\ args[t].len = 4097 /\ rc[t] = -EINVAL
          /\ buf[t] = InitBuf

\* C14: a call of raw_request with valid arguments and a report kind other
\* than feature returns -ENOTSUP in the step of the call: no mutex changes,
\* nothing is written to the pipe, no ioctl is issued and the caller's
\* buffer is as it was.
C14_UnsupportedKind ==
    [][\A t \in Fg :
          (/\ op[t] = "none" /\ op'[t] = "raw"
           /\ args'[t].kind \in {HID_OUTPUT_REPORT, HID_INPUT_REPORT})
             => /\ pc'[t] = "ret"
                /\ rc'[t] = -ENOTSUP
                /\ lock' = lock /\ grab_lock' = grab_lock /\ pipe' = pipe
                /\ taken'[t].dev = 0
                /\ buf' = buf]_vars

\* raw_request for an output report has returned -ENOTSUP while the listener
\* is in its poll, and the pipe is empty
C14_Witness ==
    /\ use_thread = 1
    /\ pc[Listener] = "rir_poll"
    /\ pipe = 0
    /\ \E t \in Fg :
          /\ pc[t] = "ret" /\ op[t] = "raw"
          /\ args[t].kind = HID_OUTPUT_REPORT /\ args[t].len = 2
          /\ rc[t] = -ENOTSUP
          /\ buf[t] = InitBuf

\* C15: when raw_request with direction get returns rc >= 0, rc is at most
\* len and the caller's buffer holds the rc bytes the device reported
\* followed by its old bytes: nothing past len is written.
C15_BoundedGet ==
    \A t \in Fg :
       (/\ pc[t] = "ret" /\ op[t] = "raw"
        /\ args[t].req = HID_REQ_GET_REPORT /\ rc[t] >= 0)
          => /\ rc[t] <= args[t].len
             /\ Len(buf[t]) = Len(InitBuf)
             /\ \A i \in 1..Len(InitBuf) :
                   buf[t][i] = IF i <= rc[t] THEN FeatureData[i] ELSE InitBuf[i]

\* raw_request(get) with len 2 has returned 1: one byte was copied
C15_Witness ==
    \E t \in Fg :
       /\ pc[t] = "ret" /\ op[t] = "raw" /\ how[t] = "get"
       /\ args[t].len = 2 /\ rc[t] = 1
       /\ buf[t] = <<7, 6>>

\* C16: outside start_events, stop_events and close, the running flag is set
\* exactly when a spawned, not yet joined listener thread exists, also when
\* the creation of the thread failed.
C16_FlagIffListener ==
    cpc = "idle" => (use_thread # 0 <=> pc[Listener] # "none")

\* C17: ratbag_open_hidraw without a hidraw node returns -EINVAL and touches
\* nothing; when the identity query or the pipe fails it returns a negative
\* value with the descriptor it opened closed and no mutex left initialised;
\* when it succeeds it returns 0 with the pipe there, no listener and both
\* mutexes free (but for a mutex taken by a foreground thread whose
\* lock_events began before the preceding close).
C17_OpenCleanup ==
    [][/\ (nopens' # nopens /\ cpc' = "unopened")
             => (crc' = -EINVAL /\ UNCHANGED hvars)
       /\ (cpc = "op_err" /\ cpc' = "unopened")
             => /\ crc' < 0
                /\ ~fd_open'
                /\ lock' = Destroyed
                /\ grab_lock' = Destroyed
       /\ (cpc = "op_pipe" /\ cpc' = "idle")
             => /\ crc' = 0
                /\ fd' >= 0 /\ fd_open'
                /\ lock' \notin Fg => lock' = Free
                /\ grab_lock' \notin Fg => grab_lock' = Free
                /\ pipe' = 0
                /\ use_thread' = 0
                /\ pc'[Listener] = "none"]_vars

\* the first open failed at the pipe, after the descriptor was stored
C17_Witness ==
    /\ cpc = "unopened"
    /\ nopens = 1
    /\ crc < 0
    /\ fd = 3
    /\ ~fd_open

\* C18: between the owner's calls of open, start, stop and close, the stored
\* descriptor passes the validity check (fd >= 0) only while that descriptor
\* is open, and the interrupt pipe exists exactly while the handle is opened
\* and not yet closed.
C18_HandleResources ==
    cpc \in {"unopened", "idle", "closed"}
        => /\ fd >= 0 => fd_open
           /\ pipe # NoPipe <=> cpc = "idle"

\* C19: a call made on a closed handle, before any new open, returns at
\* once: raw_request, output_report and read_input_report with -EINVAL and
\* without a poll, read, write or ioctl; lock_events and unlock_events with
\* the mutexes and the pipe untouched.
C19_ClosedHandleInvalid ==
    [][\A t \in Fg :
          (cpc = "closed" /\ op[t] = "none" /\ op'[t] # "none")
              => /\ pc'[t] = "ret"
                 /\ UNCHANGED <<hvars, devq, buf, cb_log>>
                 /\ taken'[t] = NoneTaken
                 /\ rc'[t] = IF op'[t] \in {"lock", "unlock"} THEN 0
                             ELSE -EINVAL]_vars

\* a read of one byte was made on the closed handle and refused, after a
\* no-op lock_events
C19_Witness ==
    /\ cpc = "closed"
    /\ op[RawCaller] = "read"
    /\ args[RawCaller].len = 1
    /\ pc[RawCaller] = "ret"
    /\ rc[RawCaller] = -EINVAL
    /\ lock = Destroyed

\* C20: while the listener runs and the owner is in no lifecycle call, a
\* foreground thread at step (a) of lock_events, the acquisition of
\* grab_lock, is never kept waiting by the listener holding grab_lock.
C20_ListenerNeverBlocksGrab ==
    \A t \in Fg :
        (use_thread = 1 /\ cpc = "idle" /\ pc[t] = "le_grab")
            => grab_lock # Listener

\* C21: when raw_request has returned, a set request has changed the caller's
\* buffer in its first byte only, which holds the report number, whether
\* the ioctl succeeded or failed; a failed get request has left the buffer
\* as it was and returns a negated errno; an unknown direction has left the
\* buffer as it was and returns -EINVAL.
C21_BufferEffects ==
    \A t \in Fg :
        (pc[t] = "ret" /\ op[t] = "raw")
            => /\ args[t].req = HID_REQ_SET_REPORT
                    => /\ buf[t][1] = ReportNum
                       /\ \A i \in 2..Len(InitBuf) : buf[t][i] = InitBuf[i]
                       /\ Len(buf[t]) = Len(InitBuf)
               /\ (args[t].req = HID_REQ_GET_REPORT /\ rc[t] < 0)
                    => /\ buf[t] = InitBuf
                       /\ -rc[t] \in {EIO, EBADF}
               /\ args[t].req = "other"
                    => /\ buf[t] = InitBuf
                       /\ rc[t] = -EINVAL

\* a set request of two bytes whose ioctl failed has returned
C21_Witness ==
    /\ pc[RawCaller] = "ret"
    /\ op[RawCaller] = "raw"
    /\ args[RawCaller].req = HID_REQ_SET_REPORT
    /\ args[RawCaller].len = 2
    /\ rc[RawCaller] = -EIO
    /\ buf[RawCaller] = <<ReportNum, InitBuf[2]>>

\* C22: the listener never holds lock and grab_lock together and never
\* waits for grab_lock while it holds lock; a foreground thread waits for
\* lock only while it holds grab_lock, and never waits for grab_lock while
\* it holds lock.
C22_LockOrdering ==
    /\ ~(lock = Listener /\ grab_lock = Listener)
    /\ ~(lock = Listener /\ pc[Listener] = "l_grab")
    /\ \A t \in Fg :
          /\ pc[t] = "le_lock" => grab_lock \in {t, Destroyed}
          /\ pc[t] = "le_grab" => lock # t

\* C23: the flag test of a foreground unlock_events sends the thread on to
\* pthread_mutex_unlock(&lock) exactly when the thread holds lock, that is
\* when its matching lock_events took it.
C23_MatchedUnlock ==
    [][\A t \in Fg :
          (\/ pc[t] = "region" /\ op'[t] = "unlock"
           \/ pc[t] = "ue_check" /\ pc'[t] # "ue_check")
              => (pc'[t] = "ue_unlock" <=> lock = t)]_vars

\* C24: once the listener has been joined (stop_events, or the stop inside
\* close, has returned) neither lock nor grab_lock is held by the listener.
C24_ListenerExitsClean ==
    pc[Listener] = "none" => (lock # Listener /\ grab_lock # Listener)

\* positions inside lock_events
LockPcs == {"le_grab", "le_write", "le_lock", "le_ungrab"}

\* C25: while the listener runs, a foreground thread that holds lock after
\* its lock_events returned, with no other thread inside lock_events, finds
\* the interrupt pipe empty.
C25_NoSelfInterruption ==
    \A t \in Fg :
        (/\ pc[t] = "region" /\ lock = t
         /\ use_thread = 1 /\ cpc = "idle"
         /\ pc[Listener] \notin {"none", "exited", "dead"}
         /\ \A s \in Fg \ {t} : pc[s] \notin LockPcs)
            => pipe = 0

====
